---- MODULE Spec2Model ----
(***************************************************************************)
(* The /subscriptions router of polar (server/polar/subscription/          *)
(* endpoints.py): the router-level feature-flag dependency and the         *)
(* handlers, each cut at its awaits.  A request is a record holding the    *)
(* handler's parameters and local variables; a step of a handler runs from *)
(* one await to the next.  The services the handlers call live outside     *)
(* endpoints.py and are modelled by what they are documented to return.    *)
(***************************************************************************)
EXTENDS Integers, Sequences, FiniteSets, TLC

(* ---------------------------------------------------------------- bounds *)
MaxPage == 2
MaxLimit == 2
MaxDate == 2
MaxWrites == 2

(* ------------------------------------------------------------ the data  *)
None == "None"
Anonymous == "Anonymous"

Reqs == {"q1", "q2"}

Users == {"alice", "bob"}
Actors == Users \cup {Anonymous}

\* alice is a member of acme; bob is a member of nothing.
Members == {<<"alice", "o1">>}
\* the users the analytics client reports the "subscriptions" flag enabled for
FlagUsers == {"alice"}

Organizations ==
    { [id |-> "o1", platform |-> "github", name |-> "acme"],
      [id |-> "o2", platform |-> "github", name |-> "other"] }

Repositories ==
    { [id |-> "r1", organization_id |-> "o1", name |-> "app"],
      [id |-> "r2", organization_id |-> "o2", name |-> "app"],
      [id |-> "r3", organization_id |-> "o2", name |-> "lib"] }

Tiers ==
    { [id |-> "t1", organization_id |-> "o1", repository_id |-> None, type |-> "hobby", created_at |-> 1],
      [id |-> "t2", organization_id |-> "o1", repository_id |-> None, type |-> "pro", created_at |-> 2],
      [id |-> "t3", organization_id |-> None, repository_id |-> "r1", type |-> "hobby", created_at |-> 3],
      [id |-> "t4", organization_id |-> "o2", repository_id |-> None, type |-> "hobby", created_at |-> 4] }

Benefits ==
    { [id |-> "b1", organization_id |-> "o1", repository_id |-> None, type |-> "custom", created_at |-> 1],
      [id |-> "b2", organization_id |-> "o1", repository_id |-> None, type |-> "articles", created_at |-> 2],
      [id |-> "b3", organization_id |-> None, repository_id |-> "r1", type |-> "custom", created_at |-> 3],
      [id |-> "b4", organization_id |-> "o2", repository_id |-> None, type |-> "custom", created_at |-> 4] }

Subscriptions ==
    { [id |-> "s1", tier |-> "t1", user |-> "bob", started_at |-> 1, created_at |-> 1],
      [id |-> "s2", tier |-> "t3", user |-> "bob", started_at |-> 2, created_at |-> 2],
      [id |-> "s3", tier |-> "t1", user |-> "alice", started_at |-> 2, created_at |-> 3],
      [id |-> "s4", tier |-> "t4", user |-> "alice", started_at |-> 1, created_at |-> 4] }

TierById(id) == CHOOSE t \in Tiers : t.id = id
BenefitById(id) == CHOOSE b \in Benefits : b.id = id
RepositoryById(id) == CHOOSE r \in Repositories : r.id = id

\* the organization an entity is managed by, directly or through its repository
ManagingOrganization(e) ==
    IF e.organization_id # None THEN e.organization_id
    ELSE RepositoryById(e.repository_id).organization_id

IsMember(user, organization) == <<user, organization>> \in Members

(* ------------------------------------------------------------ sequences *)
Min(a, b) == IF a < b THEN a ELSE b

RECURSIVE SortBy(_, _)
\* the elements of S as a sequence in increasing rank order (rank: a function
\* on S with distinct values)
SortBy(S, rank) ==
    IF S = {} THEN <<>>
    ELSE LET first == CHOOSE x \in S : \A y \in S : rank[x] <= rank[y]
         IN <<first>> \o SortBy(S \ {first}, rank)

Window(seq, page, limit) ==
    SubSeq(seq, (page - 1) * limit + 1, Min(page * limit, Len(seq)))

Range(seq) == {seq[i] : i \in 1..Len(seq)}

(* ------------------------------------------------- the data store, services *)
\* The stored data the endpoints can change: the archived tiers, the deleted
\* benefits, and the number of other committed writes (updates, creations,
\* checkout sessions).
InitStore == [archived |-> {"t2"}, deleted |-> {}, revision |-> 0]

organization_get_by_name(platform, name) ==
    LET found == {o \in Organizations : o.platform = platform /\ o.name = name}
    IN IF found = {} THEN None ELSE (CHOOSE o \in found : TRUE).id

repository_get_by_org_and_name(organization_id, name) ==
    LET found == {r \in Repositories :
                    r.organization_id = organization_id /\ r.name = name}
    IN IF found = {} THEN None ELSE (CHOOSE r \in found : TRUE).id

\* the scope of a search: a repository, an organization's own entities, or an
\* organization's entities and those of its repositories
InScope(e, organization, repository, direct_organization) ==
    /\ repository # None => e.repository_id = repository
    /\ (organization # None /\ repository = None) =>
         IF direct_organization THEN e.organization_id = organization
         ELSE ManagingOrganization(e) = organization

Paginated(matching, rank, page, limit) ==
    [results |-> Window(SortBy(matching, rank), page, limit),
     count |-> Cardinality(matching)]

ByCreation(S) == [e \in S |-> e.created_at]

subscription_tier_search(st, subject, type, organization, repository, direct_organization, include_archived, page, limit) ==
    LET matching ==
          {t \in Tiers :
              /\ InScope(t, organization, repository, direct_organization)
              /\ type # None => t.type = type
              /\ t.id \in st.archived =>
                   include_archived /\ IsMember(subject, ManagingOrganization(t))}
    IN Paginated(matching, ByCreation(matching), page, limit)

subscription_benefit_search(st, subject, type, organization, repository, direct_organization, page, limit) ==
    LET matching ==
          {b \in Benefits :
              /\ b.id \notin st.deleted
              /\ IsMember(subject, ManagingOrganization(b))
              /\ InScope(b, organization, repository, direct_organization)
              /\ type # None => b.type = type}
    IN Paginated(matching, ByCreation(matching), page, limit)

ReadableSubscriptions(user, type, organization, repository, direct_organization, subscription_tier_id) ==
    {s \in Subscriptions :
        LET t == TierById(s.tier)
        IN /\ IsMember(user, ManagingOrganization(t))
           /\ InScope(t, organization, repository, direct_organization)
           /\ type # None => t.type = type
           /\ subscription_tier_id # None => t.id = subscription_tier_id}

\* sorting: "started_at" or "-started_at", ties broken by creation order
SortRank(S, sorting) ==
    [s \in S |-> IF sorting = "-started_at"
                 THEN (MaxDate + 1 - s.started_at) * 100 + s.created_at
                 ELSE s.started_at * 100 + s.created_at]

subscription_search(st, user, type, organization, repository, direct_organization, subscription_tier_id, page, limit, sorting) ==
    LET matching == ReadableSubscriptions(user, type, organization, repository,
                                          direct_organization, subscription_tier_id)
    IN Paginated(matching, SortRank(matching, sorting), page, limit)

\* one entry per period of [start_date, end_date], none left out
get_periods_summary(st, user, start_date, end_date, organization, repository, direct_organization, type, subscription_tier_id) ==
    IF start_date > end_date
    THEN [status |-> "ValidationError", periods |-> <<>>]
    ELSE LET matching == ReadableSubscriptions(user, type, organization, repository,
                                               direct_organization, subscription_tier_id)
         IN [status |-> "ok",
             periods |-> [i \in 1..(end_date - start_date + 1) |->
                            [period |-> start_date + i - 1,
                             subscribers |-> Cardinality(
                                {s \in matching : s.started_at <= start_date + i - 1})]]]

subscription_tier_get_by_id(st, subject, id) ==
    IF \E t \in Tiers : t.id = id THEN id ELSE None

subscription_benefit_get_by_id(st, subject, id) ==
    IF \E b \in Benefits : /\ b.id = id
                           /\ b.id \notin st.deleted
                           /\ IsMember(subject, ManagingOrganization(b))
    THEN id ELSE None

\* The writing operations: refused with NotPermitted unless the user may
\* write the entity's organization.
Write(st, user, organization, written) ==
    IF IsMember(user, organization)
    THEN [status |-> "ok", store |-> written]
    ELSE [status |-> "NotPermitted", store |-> st]

Revised(st) == [st EXCEPT !.revision = st.revision + 1]

subscription_tier_user_create(st, organization, user) ==
    Write(st, user, organization, Revised(st))

subscription_tier_user_update(st, tier, user) ==
    Write(st, user, ManagingOrganization(TierById(tier)), Revised(st))

subscription_tier_archive(st, tier, user) ==
    Write(st, user, ManagingOrganization(TierById(tier)),
          [st EXCEPT !.archived = st.archived \cup {tier}])

subscription_tier_update_benefits(st, tier, user) ==
    Write(st, user, ManagingOrganization(TierById(tier)), Revised(st))

subscription_benefit_user_create(st, organization, user) ==
    Write(st, user, organization, Revised(st))

subscription_benefit_user_update(st, benefit, user) ==
    Write(st, user, ManagingOrganization(BenefitById(benefit)), Revised(st))

subscription_benefit_user_delete(st, benefit, user) ==
    Write(st, user, ManagingOrganization(BenefitById(benefit)),
          [st EXCEPT !.deleted = st.deleted \cup {benefit}])

\* archived tiers cannot be subscribed to
subscription_tier_create_subscribe_session(st, tier) ==
    IF tier \in st.archived
    THEN [status |-> "ArchivedSubscriptionTier", store |-> st]
    ELSE [status |-> "ok", store |-> Revised(st)]

(* ------------------------------------------------------------- requests *)
VARIABLES
    posthog_client,   \* whether posthog.client is configured
    store,            \* the stored data
    req               \* per request slot: the handler's parameters and locals

vars == <<posthog_client, store, req>>

\* A request: the route and the actor, the query or body parameters, the
\* handler's local variables, the service calls made so far, the response.
\* pc is "idle", "dependencies", "entry" (the handler is about to start),
\* the name of the await the handler is suspended at, or "done".
Blank(endpoint, actor) ==
    [ pc |-> "dependencies", endpoint |-> endpoint, actor |-> actor,
      platform |-> None, organization_name |-> None, repository_name |-> None,
      direct_organization |-> TRUE, include_archived |-> FALSE, type |-> None,
      subscription_tier_id |-> None, page |-> 1, limit |-> 1, sorting |-> None,
      start_date |-> 0, end_date |-> 0, id |-> None,
      organization |-> None, repository |-> None, entity |-> None,
      flag_checks |-> 0, calls |-> <<>>,
      status |-> None, items |-> <<>>, count |-> 0, max_page |-> 0 ]

Idle == [Blank(None, None) EXCEPT !.pc = "idle"]

Call(q, operation, a, b) == [q EXCEPT !.calls = Append(@, <<operation, a, b>>)]

Raise(q, status) == [q EXCEPT !.pc = "done", !.status = status]

Return(q, items) == [q EXCEPT !.pc = "done", !.status = "ok", !.items = items]

(* ----------------------------------------------------------- conversions *)
SubscriptionTierSchema_from_orm(t, st) ==
    [id |-> t.id, type |-> t.type, is_archived |-> t.id \in st.archived,
     organization_id |-> t.organization_id, repository_id |-> t.repository_id]

\* subscription_benefit_schema_map[result.type].from_orm(result)
SubscriptionBenefitSchema_from_orm(b) ==
    [schema |-> IF b.type = "articles" THEN "SubscriptionBenefitArticles"
                ELSE "SubscriptionBenefitCustom",
     id |-> b.id, type |-> b.type,
     organization_id |-> b.organization_id, repository_id |-> b.repository_id]

Subscription_from_orm(s) ==
    [id |-> s.id, user_id |-> s.user, subscription_tier_id |-> s.tier,
     started_at |-> s.started_at]

\* ListResource.from_paginated_results(items, total_count, pagination)
from_paginated_results(q, items, count) ==
    [q EXCEPT !.pc = "done", !.status = "ok", !.items = items, !.count = count,
              !.max_page = (count + q.limit - 1) \div q.limit]

(* ---------------------------------------------------------- dependencies *)
\* UserRequiredAuth: the request must carry an authenticated user.
UserRequiredAuth(q) == q.actor # Anonymous

\* is_feature_flag_enabled, the router's dependency; its auth parameter is a
\* UserRequiredAuth, resolved before its body runs.
is_feature_flag_enabled(q, client) ==
    IF ~UserRequiredAuth(q) THEN Raise(q, "Unauthorized")
    ELSE IF client
         THEN LET checked == [q EXCEPT !.flag_checks = @ + 1]
              IN IF q.actor \notin FlagUsers THEN Raise(checked, "Forbidden")
                 ELSE [checked EXCEPT !.pc = "entry"]
         ELSE [q EXCEPT !.pc = "entry"]

(* -------------------------------------------------------------- handlers *)
\* Each handler takes the request and the stored data and runs from the
\* await it is suspended at to the next one; it gives the request and the
\* stored data after the step.
Step(q, st) == [req |-> q, store |-> st]

\* the handler giving the length of the page as the count
search_subscription_tiers_window_count(q, st) ==
    CASE q.pc = "entry" -> Step([q EXCEPT !.pc = "get_by_name"], st)
      [] q.pc = "get_by_name" ->
            LET organization == organization_get_by_name(q.platform, q.organization_name)
                c == Call(q, "organization.get_by_name", q.platform, q.organization_name)
            IN IF organization = None THEN Step(Raise(c, "NotFound"), st)
               ELSE Step([c EXCEPT !.organization = organization,
                                   !.pc = IF q.repository_name # None
                                          THEN "get_by_org_and_name" ELSE "search"], st)
      [] q.pc = "get_by_org_and_name" ->
            LET repository == repository_get_by_org_and_name(q.organization, q.repository_name)
                c == Call(q, "repository.get_by_org_and_name", q.organization, q.repository_name)
            IN IF repository = None THEN Step(Raise(c, "NotFound"), st)
               ELSE Step([c EXCEPT !.repository = repository, !.pc = "search"], st)
      [] q.pc = "search" ->
            LET found == subscription_tier_search(st, q.actor, q.type, q.organization,
                             q.repository, q.direct_organization, q.include_archived,
                             q.page, q.limit)
                c == Call(q, "subscription_tier.search", q.organization, q.repository)
            IN Step(from_paginated_results(c,
                        [i \in 1..Len(found.results) |->
                            SubscriptionTierSchema_from_orm(found.results[i], st)],
                        Len(found.results)), st)

\* the handler without its check of the repository lookup
search_subscription_tiers_repository_unchecked(q, st) ==
    CASE q.pc = "entry" -> Step([q EXCEPT !.pc = "get_by_name"], st)
      [] q.pc = "get_by_name" ->
            LET organization == organization_get_by_name(q.platform, q.organization_name)
                c == Call(q, "organization.get_by_name", q.platform, q.organization_name)
            IN IF organization = None THEN Step(Raise(c, "NotFound"), st)
               ELSE Step([c EXCEPT !.organization = organization,
                                   !.pc = IF q.repository_name # None
                                          THEN "get_by_org_and_name" ELSE "search"], st)
      [] q.pc = "get_by_org_and_name" ->
            LET repository == repository_get_by_org_and_name(q.organization, q.repository_name)
                c == Call(q, "repository.get_by_org_and_name", q.organization, q.repository_name)
            IN IF FALSE THEN Step(Raise(c, "NotFound"), st)
               ELSE Step([c EXCEPT !.repository = repository, !.pc = "search"], st)
      [] q.pc = "search" ->
            LET found == subscription_tier_search(st, q.actor, q.type, q.organization,
                             q.repository, q.direct_organization, q.include_archived,
                             q.page, q.limit)
                c == Call(q, "subscription_tier.search", q.organization, q.repository)
            IN Step(from_paginated_results(c,
                        [i \in 1..Len(found.results) |->
                            SubscriptionTierSchema_from_orm(found.results[i], st)],
                        found.count), st)

search_subscription_tiers(q, st) ==
    CASE q.pc = "entry" -> Step([q EXCEPT !.pc = "get_by_name"], st)
      [] q.pc = "get_by_name" ->
            LET organization == organization_get_by_name(q.platform, q.organization_name)
                c == Call(q, "organization.get_by_name", q.platform, q.organization_name)
            IN IF organization = None THEN Step(Raise(c, "NotFound"), st)
               ELSE Step([c EXCEPT !.organization = organization,
                                   !.pc = IF q.repository_name # None
                                          THEN "get_by_org_and_name" ELSE "search"], st)
      [] q.pc = "get_by_org_and_name" ->
            LET repository == repository_get_by_org_and_name(q.organization, q.repository_name)
                c == Call(q, "repository.get_by_org_and_name", q.organization, q.repository_name)
            IN IF repository = None THEN Step(Raise(c, "NotFound"), st)
               ELSE Step([c EXCEPT !.repository = repository, !.pc = "search"], st)
      [] q.pc = "search" ->
            LET found == subscription_tier_search(st, q.actor, q.type, q.organization,
                             q.repository, q.direct_organization, q.include_archived,
                             q.page, q.limit)
                c == Call(q, "subscription_tier.search", q.organization, q.repository)
            IN Step(from_paginated_results(c,
                        [i \in 1..Len(found.results) |->
                            SubscriptionTierSchema_from_orm(found.results[i], st)],
                        found.count), st)

lookup_subscription_tier(q, st) ==
    CASE q.pc = "entry" -> Step([q EXCEPT !.pc = "get_by_id"], st)
      [] q.pc = "get_by_id" ->
            LET subscription_tier == subscription_tier_get_by_id(st, q.actor, q.id)
                c == Call(q, "subscription_tier.get_by_id", q.id, None)
            IN IF subscription_tier = None THEN Step(Raise(c, "NotFound"), st)
               ELSE Step(Return([c EXCEPT !.entity = subscription_tier],
                           <<SubscriptionTierSchema_from_orm(TierById(subscription_tier), st)>>), st)

create_subscription_tier(q, st) ==
    CASE q.pc = "entry" -> Step([q EXCEPT !.pc = "user_create"], st)
      [] q.pc = "user_create" ->
            LET done == subscription_tier_user_create(st, q.id, q.actor)
                c == Call(q, "subscription_tier.user_create", q.id, None)
            IN IF done.status # "ok" THEN Step(Raise(c, done.status), st)
               ELSE Step(Return(c, <<[id |-> "created", organization_id |-> q.id]>>), done.store)

update_subscription_tier(q, st) ==
    CASE q.pc = "entry" -> Step([q EXCEPT !.pc = "get_by_id"], st)
      [] q.pc = "get_by_id" ->
            LET subscription_tier == subscription_tier_get_by_id(st, q.actor, q.id)
                c == Call(q, "subscription_tier.get_by_id", q.id, None)
            IN IF subscription_tier = None THEN Step(Raise(c, "NotFound"), st)
               ELSE Step([c EXCEPT !.entity = subscription_tier, !.pc = "user_update"], st)
      [] q.pc = "user_update" ->
            LET done == subscription_tier_user_update(st, q.entity, q.actor)
                c == Call(q, "subscription_tier.user_update", q.entity, None)
            IN IF done.status # "ok" THEN Step(Raise(c, done.status), st)
               ELSE Step(Return(c, <<SubscriptionTierSchema_from_orm(TierById(q.entity), done.store)>>), done.store)

archive_subscription_tier(q, st) ==
    CASE q.pc = "entry" -> Step([q EXCEPT !.pc = "get_by_id"], st)
      [] q.pc = "get_by_id" ->
            LET subscription_tier == subscription_tier_get_by_id(st, q.actor, q.id)
                c == Call(q, "subscription_tier.get_by_id", q.id, None)
            IN IF subscription_tier = None THEN Step(Raise(c, "NotFound"), st)
               ELSE Step([c EXCEPT !.entity = subscription_tier, !.pc = "archive"], st)
      [] q.pc = "archive" ->
            LET done == subscription_tier_archive(st, q.entity, q.actor)
                c == Call(q, "subscription_tier.archive", q.entity, None)
            IN IF done.status # "ok" THEN Step(Raise(c, done.status), st)
               ELSE Step(Return(c, <<SubscriptionTierSchema_from_orm(TierById(q.entity), done.store)>>), done.store)

update_subscription_tier_benefits(q, st) ==
    CASE q.pc = "entry" -> Step([q EXCEPT !.pc = "get_by_id"], st)
      [] q.pc = "get_by_id" ->
            LET subscription_tier == subscription_tier_get_by_id(st, q.actor, q.id)
                c == Call(q, "subscription_tier.get_by_id", q.id, None)
            IN IF subscription_tier = None THEN Step(Raise(c, "NotFound"), st)
               ELSE Step([c EXCEPT !.entity = subscription_tier, !.pc = "update_benefits"], st)
      [] q.pc = "update_benefits" ->
            LET done == subscription_tier_update_benefits(st, q.entity, q.actor)
                c == Call(q, "subscription_tier.update_benefits", q.entity, None)
            IN IF done.status # "ok" THEN Step(Raise(c, done.status), st)
               ELSE Step(Return(c, <<SubscriptionTierSchema_from_orm(TierById(q.entity), done.store)>>), done.store)

\* the handler without its check of the organization lookup
search_subscription_benefits_unchecked(q, st) ==
    CASE q.pc = "entry" -> Step([q EXCEPT !.pc = "get_by_name"], st)
      [] q.pc = "get_by_name" ->
            LET organization == organization_get_by_name(q.platform, q.organization_name)
                c == Call(q, "organization.get_by_name", q.platform, q.organization_name)
            IN IF FALSE THEN Step(Raise(c, "NotFound"), st)
               ELSE Step([c EXCEPT !.organization = organization,
                                   !.pc = IF q.repository_name # None
                                          THEN "get_by_org_and_name" ELSE "search"], st)
      [] q.pc = "get_by_org_and_name" ->
            LET repository == repository_get_by_org_and_name(q.organization, q.repository_name)
                c == Call(q, "repository.get_by_org_and_name", q.organization, q.repository_name)
            IN IF repository = None THEN Step(Raise(c, "NotFound"), st)
               ELSE Step([c EXCEPT !.repository = repository, !.pc = "search"], st)
      [] q.pc = "search" ->
            LET found == subscription_benefit_search(st, q.actor, q.type, q.organization,
                             q.repository, q.direct_organization, q.page, q.limit)
                c == Call(q, "subscription_benefit.search", q.organization, q.repository)
            IN Step(from_paginated_results(c,
                        [i \in 1..Len(found.results) |->
                            SubscriptionBenefitSchema_from_orm(found.results[i])],
                        found.count), st)

search_subscription_benefits(q, st) ==
    CASE q.pc = "entry" -> Step([q EXCEPT !.pc = "get_by_name"], st)
      [] q.pc = "get_by_name" ->
            LET organization == organization_get_by_name(q.platform, q.organization_name)
                c == Call(q, "organization.get_by_name", q.platform, q.organization_name)
            IN IF organization = None THEN Step(Raise(c, "NotFound"), st)
               ELSE Step([c EXCEPT !.organization = organization,
                                   !.pc = IF q.repository_name # None
                                          THEN "get_by_org_and_name" ELSE "search"], st)
      [] q.pc = "get_by_org_and_name" ->
            LET repository == repository_get_by_org_and_name(q.organization, q.repository_name)
                c == Call(q, "repository.get_by_org_and_name", q.organization, q.repository_name)
            IN IF repository = None THEN Step(Raise(c, "NotFound"), st)
               ELSE Step([c EXCEPT !.repository = repository, !.pc = "search"], st)
      [] q.pc = "search" ->
            LET found == subscription_benefit_search(st, q.actor, q.type, q.organization,
                             q.repository, q.direct_organization, q.page, q.limit)
                c == Call(q, "subscription_benefit.search", q.organization, q.repository)
            IN Step(from_paginated_results(c,
                        [i \in 1..Len(found.results) |->
                            SubscriptionBenefitSchema_from_orm(found.results[i])],
                        found.count), st)

lookup_subscription_benefit(q, st) ==
    CASE q.pc = "entry" -> Step([q EXCEPT !.pc = "get_by_id"], st)
      [] q.pc = "get_by_id" ->
            LET subscription_benefit == subscription_benefit_get_by_id(st, q.actor, q.id)
                c == Call(q, "subscription_benefit.get_by_id", q.id, None)
            IN IF subscription_benefit = None THEN Step(Raise(c, "NotFound"), st)
               ELSE Step(Return([c EXCEPT !.entity = subscription_benefit],
                           <<SubscriptionBenefitSchema_from_orm(BenefitById(subscription_benefit))>>), st)

create_subscription_benefit(q, st) ==
    CASE q.pc = "entry" -> Step([q EXCEPT !.pc = "user_create"], st)
      [] q.pc = "user_create" ->
            LET done == subscription_benefit_user_create(st, q.id, q.actor)
                c == Call(q, "subscription_benefit.user_create", q.id, None)
            IN IF done.status # "ok" THEN Step(Raise(c, done.status), st)
               ELSE Step(Return(c, <<[id |-> "created", organization_id |-> q.id]>>), done.store)

update_subscription_benefit(q, st) ==
    CASE q.pc = "entry" -> Step([q EXCEPT !.pc = "get_by_id"], st)
      [] q.pc = "get_by_id" ->
            LET subscription_benefit == subscription_benefit_get_by_id(st, q.actor, q.id)
                c == Call(q, "subscription_benefit.get_by_id", q.id, None)
            IN IF subscription_benefit = None THEN Step(Raise(c, "NotFound"), st)
               ELSE Step([c EXCEPT !.entity = subscription_benefit, !.pc = "user_update"], st)
      [] q.pc = "user_update" ->
            LET done == subscription_benefit_user_update(st, q.entity, q.actor)
                c == Call(q, "subscription_benefit.user_update", q.entity, None)
            IN IF done.status # "ok" THEN Step(Raise(c, done.status), st)
               ELSE Step(Return(c, <<SubscriptionBenefitSchema_from_orm(BenefitById(q.entity))>>), done.store)

\* the handler going on when get_by_id gives no benefit for the actor
delete_subscription_benefit_unscoped(q, st) ==
    CASE q.pc = "entry" -> Step([q EXCEPT !.pc = "get_by_id"], st)
      [] q.pc = "get_by_id" ->
            LET subscription_benefit == subscription_benefit_get_by_id(st, q.actor, q.id)
                c == Call(q, "subscription_benefit.get_by_id", q.id, None)
            IN IF \A b \in Benefits : b.id # q.id THEN Step(Raise(c, "NotFound"), st)
               ELSE Step([c EXCEPT !.entity = q.id, !.pc = "user_delete"], st)
      [] q.pc = "user_delete" ->
            LET done == subscription_benefit_user_delete(st, q.entity, q.actor)
                c == Call(q, "subscription_benefit.user_delete", q.entity, None)
            IN IF done.status # "ok" THEN Step(Raise(c, done.status), st)
               ELSE Step(Return(c, <<>>), done.store)

delete_subscription_benefit(q, st) ==
    CASE q.pc = "entry" -> Step([q EXCEPT !.pc = "get_by_id"], st)
      [] q.pc = "get_by_id" ->
            LET subscription_benefit == subscription_benefit_get_by_id(st, q.actor, q.id)
                c == Call(q, "subscription_benefit.get_by_id", q.id, None)
            IN IF subscription_benefit = None THEN Step(Raise(c, "NotFound"), st)
               ELSE Step([c EXCEPT !.entity = subscription_benefit, !.pc = "user_delete"], st)
      [] q.pc = "user_delete" ->
            LET done == subscription_benefit_user_delete(st, q.entity, q.actor)
                c == Call(q, "subscription_benefit.user_delete", q.entity, None)
            IN IF done.status # "ok" THEN Step(Raise(c, done.status), st)
               ELSE Step(Return(c, <<>>), done.store)

create_subscribe_session(q, st) ==
    CASE q.pc = "entry" -> Step([q EXCEPT !.pc = "get_by_id"], st)
      [] q.pc = "get_by_id" ->
            LET subscription_tier == subscription_tier_get_by_id(st, q.actor, q.id)
                c == Call(q, "subscription_tier.get_by_id", q.id, None)
            IN IF subscription_tier = None THEN Step(Raise(c, "NotFound"), st)
               ELSE Step([c EXCEPT !.entity = subscription_tier,
                                   !.pc = "create_subscribe_session"], st)
      [] q.pc = "create_subscribe_session" ->
            LET done == subscription_tier_create_subscribe_session(st, q.entity)
                c == Call(q, "subscription_tier.create_subscribe_session", q.entity, None)
            IN IF done.status # "ok" THEN Step(Raise(c, done.status), st)
               ELSE Step(Return(c, <<[id |-> "session", subscription_tier_id |-> q.entity]>>), done.store)

get_subscribe_session(q, st) ==
    CASE q.pc = "entry" -> Step([q EXCEPT !.pc = "get_subscribe_session"], st)
      [] q.pc = "get_subscribe_session" ->
            Step(Return(Call(q, "subscription_tier.get_subscribe_session", q.id, None),
                        <<[id |-> q.id]>>), st)

\* the handler passing end_date as start_date and start_date as end_date
get_subscriptions_summary_swapped_dates(q, st) ==
    CASE q.pc = "entry" -> Step([q EXCEPT !.pc = "get_by_name"], st)
      [] q.pc = "get_by_name" ->
            LET organization == organization_get_by_name(q.platform, q.organization_name)
                c == Call(q, "organization.get_by_name", q.platform, q.organization_name)
            IN IF organization = None THEN Step(Raise(c, "NotFound"), st)
               ELSE Step([c EXCEPT !.organization = organization,
                                   !.pc = IF q.repository_name # None
                                          THEN "get_by_org_and_name"
                                          ELSE "get_periods_summary"], st)
      [] q.pc = "get_by_org_and_name" ->
            LET repository == repository_get_by_org_and_name(q.organization, q.repository_name)
                c == Call(q, "repository.get_by_org_and_name", q.organization, q.repository_name)
            IN IF repository = None THEN Step(Raise(c, "NotFound"), st)
               ELSE Step([c EXCEPT !.repository = repository, !.pc = "get_periods_summary"], st)
      [] q.pc = "get_periods_summary" ->
            LET summary == get_periods_summary(st, q.actor, q.end_date, q.start_date,
                               q.organization, q.repository, q.direct_organization,
                               q.type, q.subscription_tier_id)
                c == Call(q, "subscription.get_periods_summary", q.organization, q.repository)
            IN IF summary.status # "ok" THEN Step(Raise(c, summary.status), st)
               ELSE Step(Return(c, summary.periods), st)

\* the handler keeping the repository in a variable all requests share
get_subscriptions_summary_shared_repository(q, st) ==
    CASE q.pc = "entry" -> Step([q EXCEPT !.pc = "get_by_name"], st)
      [] q.pc = "get_by_name" ->
            LET organization == organization_get_by_name(q.platform, q.organization_name)
                c == Call(q, "organization.get_by_name", q.platform, q.organization_name)
            IN IF organization = None THEN Step(Raise(c, "NotFound"), st)
               ELSE Step([c EXCEPT !.organization = organization,
                                   !.pc = IF q.repository_name # None
                                          THEN "get_by_org_and_name"
                                          ELSE "get_periods_summary"], st)
      [] q.pc = "get_by_org_and_name" ->
            LET repository == repository_get_by_org_and_name(q.organization, q.repository_name)
                c == Call(q, "repository.get_by_org_and_name", q.organization, q.repository_name)
            IN IF repository = None THEN Step(Raise(c, "NotFound"), st)
               ELSE Step([c EXCEPT !.repository = repository, !.pc = "get_periods_summary"], st)
      [] q.pc = "get_periods_summary" ->
            LET holders == {x \in Reqs : req[x].repository # None}
                shared == IF holders = {} THEN q.repository
                          ELSE req[CHOOSE x \in holders : TRUE].repository
                summary == get_periods_summary(st, q.actor, q.start_date, q.end_date,
                               q.organization, shared, q.direct_organization,
                               q.type, q.subscription_tier_id)
                c == Call(q, "subscription.get_periods_summary", q.organization, shared)
            IN IF summary.status # "ok" THEN Step(Raise(c, summary.status), st)
               ELSE Step(Return(c, summary.periods), st)

get_subscriptions_summary(q, st) ==
    CASE q.pc = "entry" -> Step([q EXCEPT !.pc = "get_by_name"], st)
      [] q.pc = "get_by_name" ->
            LET organization == organization_get_by_name(q.platform, q.organization_name)
                c == Call(q, "organization.get_by_name", q.platform, q.organization_name)
            IN IF organization = None THEN Step(Raise(c, "NotFound"), st)
               ELSE Step([c EXCEPT !.organization = organization,
                                   !.pc = IF q.repository_name # None
                                          THEN "get_by_org_and_name"
                                          ELSE "get_periods_summary"], st)
      [] q.pc = "get_by_org_and_name" ->
            LET repository == repository_get_by_org_and_name(q.organization, q.repository_name)
                c == Call(q, "repository.get_by_org_and_name", q.organization, q.repository_name)
            IN IF repository = None THEN Step(Raise(c, "NotFound"), st)
               ELSE Step([c EXCEPT !.repository = repository, !.pc = "get_periods_summary"], st)
      [] q.pc = "get_periods_summary" ->
            LET summary == get_periods_summary(st, q.actor, q.start_date, q.end_date,
                               q.organization, q.repository, q.direct_organization,
                               q.type, q.subscription_tier_id)
                c == Call(q, "subscription.get_periods_summary", q.organization, q.repository)
            IN IF summary.status # "ok" THEN Step(Raise(c, summary.status), st)
               ELSE Step(Return(c, summary.periods), st)

\* the handler without its check that repository_name comes with an organization
search_subscriptions_no_companion_check(q, st) ==
    CASE q.pc = "entry" ->
            IF q.organization_name # None THEN Step([q EXCEPT !.pc = "get_by_name"], st)
            ELSE IF q.repository_name # None THEN Step([q EXCEPT !.pc = "get_by_org_and_name"], st)
            ELSE Step([q EXCEPT !.pc = "search"], st)
      [] q.pc = "get_by_name" ->
            LET organization == organization_get_by_name(q.platform, q.organization_name)
                c == Call(q, "organization.get_by_name", q.platform, q.organization_name)
            IN IF organization = None THEN Step(Raise(c, "NotFound"), st)
               ELSE Step([c EXCEPT !.organization = organization,
                                   !.pc = IF q.repository_name # None
                                          THEN "get_by_org_and_name" ELSE "search"], st)
      [] q.pc = "get_by_org_and_name" ->
            LET repository == repository_get_by_org_and_name(q.organization, q.repository_name)
                c == Call(q, "repository.get_by_org_and_name", q.organization, q.repository_name)
            IN IF repository = None THEN Step(Raise(c, "NotFound"), st)
               ELSE Step([c EXCEPT !.repository = repository, !.pc = "search"], st)
      [] q.pc = "search" ->
            LET found == subscription_search(st, q.actor, q.type, q.organization,
                             q.repository, q.direct_organization, q.subscription_tier_id,
                             q.page, q.limit, q.sorting)
                c == Call(q, "subscription.search", q.organization, q.repository)
            IN Step(from_paginated_results(c,
                        [i \in 1..Len(found.results) |-> Subscription_from_orm(found.results[i])],
                        found.count), st)

\* the handler looking the repository up by its name alone
search_subscriptions_by_name_only(q, st) ==
    CASE q.pc = "entry" ->
            IF q.organization_name # None THEN Step([q EXCEPT !.pc = "get_by_name"], st)
            ELSE IF q.repository_name # None THEN Step(Raise(q, "BadRequest"), st)
            ELSE Step([q EXCEPT !.pc = "search"], st)
      [] q.pc = "get_by_name" ->
            LET organization == organization_get_by_name(q.platform, q.organization_name)
                c == Call(q, "organization.get_by_name", q.platform, q.organization_name)
            IN IF organization = None THEN Step(Raise(c, "NotFound"), st)
               ELSE Step([c EXCEPT !.organization = organization,
                                   !.pc = IF q.repository_name # None
                                          THEN "get_by_org_and_name" ELSE "search"], st)
      [] q.pc = "get_by_org_and_name" ->
            LET named == {x \in Repositories : x.name = q.repository_name}
                repository == IF named = {} THEN None
                              ELSE (CHOOSE x \in named : TRUE).id
                c == Call(q, "repository.get_by_org_and_name", q.organization, q.repository_name)
            IN IF repository = None THEN Step(Raise(c, "NotFound"), st)
               ELSE Step([c EXCEPT !.repository = repository, !.pc = "search"], st)
      [] q.pc = "search" ->
            LET found == subscription_search(st, q.actor, q.type, q.organization,
                             q.repository, q.direct_organization, q.subscription_tier_id,
                             q.page, q.limit, q.sorting)
                c == Call(q, "subscription.search", q.organization, q.repository)
            IN Step(from_paginated_results(c,
                        [i \in 1..Len(found.results) |-> Subscription_from_orm(found.results[i])],
                        found.count), st)

search_subscriptions(q, st) ==
    CASE q.pc = "entry" ->
            IF q.organization_name # None THEN Step([q EXCEPT !.pc = "get_by_name"], st)
            ELSE IF q.repository_name # None THEN Step(Raise(q, "BadRequest"), st)
            ELSE Step([q EXCEPT !.pc = "search"], st)
      [] q.pc = "get_by_name" ->
            LET organization == organization_get_by_name(q.platform, q.organization_name)
                c == Call(q, "organization.get_by_name", q.platform, q.organization_name)
            IN IF organization = None THEN Step(Raise(c, "NotFound"), st)
               ELSE Step([c EXCEPT !.organization = organization,
                                   !.pc = IF q.repository_name # None
                                          THEN "get_by_org_and_name" ELSE "search"], st)
      [] q.pc = "get_by_org_and_name" ->
            LET repository == repository_get_by_org_and_name(q.organization, q.repository_name)
                c == Call(q, "repository.get_by_org_and_name", q.organization, q.repository_name)
            IN IF repository = None THEN Step(Raise(c, "NotFound"), st)
               ELSE Step([c EXCEPT !.repository = repository, !.pc = "search"], st)
      [] q.pc = "search" ->
            LET found == subscription_search(st, q.actor, q.type, q.organization,
                             q.repository, q.direct_organization, q.subscription_tier_id,
                             q.page, q.limit, q.sorting)
                c == Call(q, "subscription.search", q.organization, q.repository)
            IN Step(from_paginated_results(c,
                        [i \in 1..Len(found.results) |-> Subscription_from_orm(found.results[i])],
                        found.count), st)

(* ------------------------------------------------------- request inputs *)
TierTypes == {None, "hobby"}
BenefitTypes == {None, "custom"}
Sortings == {"started_at", "-started_at"}
Pages == 1..MaxPage
Limits == 1..MaxLimit
Dates == 1..MaxDate

\* <<organization_name, repository_name>>: acme has the repository app; lib
\* is a repository of another organization; ghost is no organization.
Scopes == { <<"acme", None>>, <<"acme", "app">>, <<"acme", "lib">>,
            <<"ghost", None>>, <<"ghost", "app">> }
\* on the subscriptions search the organization is optional
OptionalScopes == Scopes \cup { <<None, None>>, <<None, "app">> }

Scoped(q, scope) ==
    [q EXCEPT !.platform = IF scope[1] = None THEN None ELSE "github",
              !.organization_name = scope[1], !.repository_name = scope[2]]

TierSearches(actors, scopes, limits, flags, types) ==
    { [Scoped(Blank("search_subscription_tiers", a), sc) EXCEPT
          !.page = p, !.limit = l, !.direct_organization = d,
          !.include_archived = ia, !.type = ty] :
      a \in actors, sc \in scopes, p \in Pages, l \in limits, d \in flags,
      ia \in flags, ty \in types }

BenefitSearches(actors, scopes, limits, flags, types) ==
    { [Scoped(Blank("search_subscription_benefits", a), sc) EXCEPT
          !.page = p, !.limit = l, !.direct_organization = d, !.type = ty] :
      a \in actors, sc \in scopes, p \in Pages, l \in limits, d \in flags, ty \in types }

SubscriptionSearches(actors, scopes, limits, flags, types, sortings) ==
    { [Scoped(Blank("search_subscriptions", a), sc) EXCEPT
          !.page = p, !.limit = l, !.direct_organization = d, !.type = ty,
          !.sorting = so] :
      a \in actors, sc \in scopes, p \in Pages, l \in limits, d \in flags,
      ty \in types, so \in sortings }

Summaries(actors, scopes, flags, types) ==
    { [Scoped(Blank("get_subscriptions_summary", a), sc) EXCEPT
          !.start_date = sd, !.end_date = ed, !.direct_organization = d, !.type = ty] :
      a \in actors, sc \in scopes, sd \in Dates, ed \in Dates, d \in flags, ty \in types }

ById(endpoints, ids) ==
    { [Blank(e, a) EXCEPT !.id = id] : e \in endpoints, a \in Actors, id \in ids }

TierEndpoints ==
    { "lookup_subscription_tier", "update_subscription_tier", "archive_subscription_tier",
      "update_subscription_tier_benefits", "create_subscribe_session" }
BenefitEndpoints ==
    { "lookup_subscription_benefit", "update_subscription_benefit",
      "delete_subscription_benefit" }
CreateEndpoints == { "create_subscription_tier", "create_subscription_benefit" }
ReadEndpoints ==
    { "search_subscription_tiers", "search_subscription_benefits",
      "get_subscriptions_summary", "search_subscriptions" }
\* the endpoints whose service operation writes the stored data
WritingEndpoints ==
    (TierEndpoints \cup BenefitEndpoints \cup CreateEndpoints)
      \ { "lookup_subscription_tier", "lookup_subscription_benefit" }
\* the endpoints declared with auth: UserRequiredAuth
UserRequiredEndpoints ==
    { "create_subscription_tier", "update_subscription_tier", "archive_subscription_tier",
      "update_subscription_tier_benefits", "search_subscription_benefits",
      "lookup_subscription_benefit", "create_subscription_benefit",
      "update_subscription_benefit", "delete_subscription_benefit",
      "get_subscriptions_summary", "search_subscriptions" }

Requests ==
    TierSearches(Actors, Scopes, Limits, BOOLEAN, TierTypes)
      \cup BenefitSearches(Actors, Scopes, Limits, BOOLEAN, BenefitTypes)
      \cup SubscriptionSearches(Actors, OptionalScopes, Limits, BOOLEAN, TierTypes, Sortings)
      \cup Summaries(Actors, Scopes, BOOLEAN, TierTypes)
      \cup ById(TierEndpoints, {"t1", "t9"})
      \cup ById(BenefitEndpoints, {"b1", "b9"})
      \cup ById(CreateEndpoints, {"o1", "o2"})
      \cup ById({"get_subscribe_session"}, {"cs_1"})

\* the requests by id that are run concurrently
ByIdRequests ==
    ById(TierEndpoints \ {"lookup_subscription_tier"}, {"t1", "t9"})
      \cup ById(BenefitEndpoints \ {"lookup_subscription_benefit"}, {"b1", "b9"})

\* the read requests that are run concurrently
ConcurrentScopes == { <<"acme", None>>, <<"acme", "app">>, <<"acme", "lib">>, <<"ghost", None>> }
ConcurrentRequests ==
    TierSearches(Users, ConcurrentScopes, {MaxLimit}, {FALSE}, {None})
      \cup BenefitSearches(Users, ConcurrentScopes, {MaxLimit}, {FALSE}, {None})
      \cup SubscriptionSearches(Users, ConcurrentScopes \cup {<<None, None>>, <<None, "app">>},
                                {MaxLimit}, {FALSE}, {None}, {"started_at"})
      \cup Summaries(Users, ConcurrentScopes, {FALSE}, {None})

(* ---------------------------------------------------------------- actions *)
Init ==
    /\ posthog_client \in BOOLEAN
    /\ store = InitStore
    /\ req = [r \in Reqs |-> Idle]

\* the router resolves its dependencies, then the handler's own
Dependencies(q, client) ==
    LET gated == is_feature_flag_enabled(q, client)
    IN IF gated.pc = "done" THEN gated
       ELSE IF q.endpoint \in UserRequiredEndpoints /\ ~UserRequiredAuth(q)
            THEN Raise(gated, "Unauthorized")
            ELSE gated

Running(r, endpoint) ==
    /\ req[r].endpoint = endpoint
    /\ req[r].pc \notin {"idle", "dependencies", "done"}

Advance(r, out) ==
    /\ req' = [req EXCEPT ![r] = out.req]
    /\ store' = out.store
    /\ UNCHANGED posthog_client

\* writing requests are admitted while the writes committed and under way
\* stay within MaxWrites
Admitted(rq) ==
    rq.endpoint \in WritingEndpoints =>
        store.revision + Cardinality({x \in Reqs : /\ req[x].endpoint \in WritingEndpoints
                                                   /\ req[x].pc # "done"}) < MaxWrites

\* a request arrives while no other is being served
Begin(r) ==
    /\ \A x \in Reqs : req[x].pc = "idle"
    /\ \E rq \in Requests : Admitted(rq) /\ req' = [req EXCEPT ![r] = rq]
    /\ UNCHANGED <<posthog_client, store>>

\* a request that acts on an entity by id arrives, whatever the other
\* requests are doing
BeginById(r) ==
    /\ req[r].pc = "idle"
    /\ \E rq \in ByIdRequests : Admitted(rq) /\ req' = [req EXCEPT ![r] = rq]
    /\ UNCHANGED <<posthog_client, store>>

\* a read request arrives, whatever the other requests are doing
BeginConcurrent(r) ==
    /\ req[r].pc = "idle"
    /\ \E rq \in ConcurrentRequests : req' = [req EXCEPT ![r] = rq]
    /\ UNCHANGED <<posthog_client, store>>

ResolveDependencies(r) ==
    /\ req[r].pc = "dependencies"
    /\ req' = [req EXCEPT ![r] = Dependencies(req[r], posthog_client)]
    /\ UNCHANGED <<posthog_client, store>>

SearchSubscriptionTiers(r) ==
    /\ Running(r, "search_subscription_tiers")
    /\ Advance(r, search_subscription_tiers(req[r], store))

LookupSubscriptionTier(r) ==
    /\ Running(r, "lookup_subscription_tier")
    /\ Advance(r, lookup_subscription_tier(req[r], store))

CreateSubscriptionTier(r) ==
    /\ Running(r, "create_subscription_tier")
    /\ Advance(r, create_subscription_tier(req[r], store))

UpdateSubscriptionTier(r) ==
    /\ Running(r, "update_subscription_tier")
    /\ Advance(r, update_subscription_tier(req[r], store))

ArchiveSubscriptionTier(r) ==
    /\ Running(r, "archive_subscription_tier")
    /\ Advance(r, archive_subscription_tier(req[r], store))

UpdateSubscriptionTierBenefits(r) ==
    /\ Running(r, "update_subscription_tier_benefits")
    /\ Advance(r, update_subscription_tier_benefits(req[r], store))

SearchSubscriptionBenefits(r) ==
    /\ Running(r, "search_subscription_benefits")
    /\ Advance(r, search_subscription_benefits(req[r], store))

LookupSubscriptionBenefit(r) ==
    /\ Running(r, "lookup_subscription_benefit")
    /\ Advance(r, lookup_subscription_benefit(req[r], store))

CreateSubscriptionBenefit(r) ==
    /\ Running(r, "create_subscription_benefit")
    /\ Advance(r, create_subscription_benefit(req[r], store))

UpdateSubscriptionBenefit(r) ==
    /\ Running(r, "update_subscription_benefit")
    /\ Advance(r, update_subscription_benefit(req[r], store))

DeleteSubscriptionBenefit(r) ==
    /\ Running(r, "delete_subscription_benefit")
    /\ Advance(r, delete_subscription_benefit(req[r], store))

CreateSubscribeSession(r) ==
    /\ Running(r, "create_subscribe_session")
    /\ Advance(r, create_subscribe_session(req[r], store))

GetSubscribeSession(r) ==
    /\ Running(r, "get_subscribe_session")
    /\ Advance(r, get_subscribe_session(req[r], store))

GetSubscriptionsSummary(r) ==
    /\ Running(r, "get_subscriptions_summary")
    /\ Advance(r, get_subscriptions_summary(req[r], store))

SearchSubscriptions(r) ==
    /\ Running(r, "search_subscriptions")
    /\ Advance(r, search_subscriptions(req[r], store))

\* the response is sent and the request's state dropped
Respond(r) ==
    /\ req[r].pc = "done"
    /\ req' = [req EXCEPT ![r] = Idle]
    /\ UNCHANGED <<posthog_client, store>>

Next ==
    \E r \in Reqs :
        \/ Begin(r)
        \/ ResolveDependencies(r)
        \/ SearchSubscriptionTiers(r)
        \/ LookupSubscriptionTier(r)
        \/ CreateSubscriptionTier(r)
        \/ UpdateSubscriptionTier(r)
        \/ ArchiveSubscriptionTier(r)
        \/ UpdateSubscriptionTierBenefits(r)
        \/ SearchSubscriptionBenefits(r)
        \/ LookupSubscriptionBenefit(r)
        \/ CreateSubscriptionBenefit(r)
        \/ UpdateSubscriptionBenefit(r)
        \/ DeleteSubscriptionBenefit(r)
        \/ CreateSubscribeSession(r)
        \/ GetSubscribeSession(r)
        \/ GetSubscriptionsSummary(r)
        \/ SearchSubscriptions(r)
        \/ Respond(r)

\* requests of every route, served one at a time
Spec == Init /\ [][Next]_vars

NextConcurrent ==
    \E r \in Reqs :
        \/ BeginConcurrent(r)
        \/ ResolveDependencies(r)
        \/ SearchSubscriptionTiers(r)
        \/ SearchSubscriptionBenefits(r)
        \/ GetSubscriptionsSummary(r)
        \/ SearchSubscriptions(r)
        \/ Respond(r)

\* read requests interleaved at their awaits
SpecConcurrent == Init /\ [][NextConcurrent]_vars

NextById ==
    \E r \in Reqs :
        \/ BeginById(r)
        \/ ResolveDependencies(r)
        \/ UpdateSubscriptionTier(r)
        \/ ArchiveSubscriptionTier(r)
        \/ UpdateSubscriptionTierBenefits(r)
        \/ UpdateSubscriptionBenefit(r)
        \/ DeleteSubscriptionBenefit(r)
        \/ CreateSubscribeSession(r)
        \/ Respond(r)

\* requests that act on an entity by id, interleaved at their awaits
SpecById == Init /\ [][NextById]_vars

(* ------------------------------------------------- a request run alone *)
\* the router: the handler of the request's route
Handler(q, st) ==
    CASE q.endpoint = "search_subscription_tiers" -> search_subscription_tiers(q, st)
      [] q.endpoint = "lookup_subscription_tier" -> lookup_subscription_tier(q, st)
      [] q.endpoint = "create_subscription_tier" -> create_subscription_tier(q, st)
      [] q.endpoint = "update_subscription_tier" -> update_subscription_tier(q, st)
      [] q.endpoint = "archive_subscription_tier" -> archive_subscription_tier(q, st)
      [] q.endpoint = "update_subscription_tier_benefits" -> update_subscription_tier_benefits(q, st)
      [] q.endpoint = "search_subscription_benefits" -> search_subscription_benefits(q, st)
      [] q.endpoint = "lookup_subscription_benefit" -> lookup_subscription_benefit(q, st)
      [] q.endpoint = "create_subscription_benefit" -> create_subscription_benefit(q, st)
      [] q.endpoint = "update_subscription_benefit" -> update_subscription_benefit(q, st)
      [] q.endpoint = "delete_subscription_benefit" -> delete_subscription_benefit(q, st)
      [] q.endpoint = "create_subscribe_session" -> create_subscribe_session(q, st)
      [] q.endpoint = "get_subscribe_session" -> get_subscribe_session(q, st)
      [] q.endpoint = "get_subscriptions_summary" -> get_subscriptions_summary(q, st)
      [] q.endpoint = "search_subscriptions" -> search_subscriptions(q, st)

RECURSIVE Served(_, _)
\* the request after its handler has run to its end with nothing in between
Served(q, st) ==
    IF q.pc = "done" THEN q
    ELSE LET out == Handler(q, st) IN Served(out.req, out.store)

\* the request as it arrived: its parameters, none of its locals
Arrived(q) ==
    [q EXCEPT !.pc = "dependencies", !.organization = None, !.repository = None,
              !.entity = None, !.flag_checks = 0, !.calls = <<>>, !.status = None,
              !.items = <<>>, !.count = 0, !.max_page = 0]

\* the response the request gets when it is the only one served
Alone(q) == Served(Dependencies(Arrived(q), posthog_client), store)

(* ------------------------------------------------------------ the claims *)
Operations(q) == {q.calls[i][1] : i \in 1..Len(q.calls)}

LookupOrganization == "organization.get_by_name"
LookupRepository == "repository.get_by_org_and_name"
SearchOperations ==
    { "subscription_tier.search", "subscription_benefit.search",
      "subscription.search", "subscription.get_periods_summary" }
WritingOperations ==
    { "subscription_tier.user_create", "subscription_tier.user_update",
      "subscription_tier.archive", "subscription_tier.update_benefits",
      "subscription_benefit.user_create", "subscription_benefit.user_update",
      "subscription_benefit.user_delete", "subscription_tier.create_subscribe_session" }
\* the statuses the router's dependencies end a request with
Refusals == {"Unauthorized", "Forbidden"}

\* C1: in a scoped endpoint, when the organization lookup by (platform,
\* organization_name) finds no organization the request ends with NotFound,
\* and the organization lookup is the only call it has made: no repository
\* lookup, no search, no summary.
C1_OrganizationNotFound ==
    \A r \in Reqs :
        LET q == req[r]
        IN \A i \in 1..Len(q.calls) :
              ( /\ q.calls[i][1] = LookupOrganization
                /\ organization_get_by_name(q.calls[i][2], q.calls[i][3]) = None )
              => /\ q.pc = "done"
                 /\ q.status = "NotFound"
                 /\ q.items = <<>>
                 /\ Operations(q) = {LookupOrganization}
                 /\ Len(q.calls) = 1

C1_Witness ==
    \E r \in Reqs :
        /\ req[r].endpoint = "search_subscriptions"
        /\ req[r].organization_name = "ghost"
        /\ req[r].repository_name = "app"
        /\ req[r].pc = "done"
        /\ req[r].status = "NotFound"
        /\ Len(req[r].calls) = 1

\* C2: a subscriptions search with repository_name and without
\* organization_name/platform, once its handler has run, has ended with
\* BadRequest, and at no point has it made a call to the data store.
C2_RepositoryWithoutOrganization ==
    \A r \in Reqs :
        LET q == req[r]
        IN ( /\ q.endpoint = "search_subscriptions"
             /\ q.repository_name # None
             /\ q.organization_name = None )
           => /\ q.calls = <<>>
              /\ q.pc \in {"dependencies", "entry", "done"}
              /\ (q.pc = "done" /\ q.status \notin Refusals) =>
                    (q.status = "BadRequest" /\ q.items = <<>>)

C2_Witness ==
    \E r \in Reqs :
        /\ req[r].endpoint = "search_subscriptions"
        /\ req[r].repository_name = "app"
        /\ req[r].organization_name = None
        /\ req[r].pc = "done"
        /\ req[r].status = "BadRequest"

\* C3: whenever a search or summary is called with a repository, that
\* repository belongs to the organization resolved in the same request and
\* passed in the same call, and it was looked up with that organization's id.
C3_RepositoryOfResolvedOrganization ==
    \A r \in Reqs :
        LET q == req[r]
        IN \A i \in 1..Len(q.calls) :
              (q.calls[i][1] \in SearchOperations /\ q.calls[i][3] # None)
              => /\ q.organization # None
                 /\ q.calls[i][2] = q.organization
                 /\ RepositoryById(q.calls[i][3]).organization_id = q.organization
                 /\ \E j \in 1..(i - 1) :
                       q.calls[j] = <<LookupRepository, q.organization, q.repository_name>>

C3_Witness ==
    \E r \in Reqs :
        /\ req[r].endpoint = "search_subscription_benefits"
        /\ req[r].pc = "done"
        /\ req[r].status = "ok"
        /\ req[r].repository = "r1"
        /\ req[r].organization = "o1"
        /\ \E i \in 1..Len(req[r].calls) :
              req[r].calls[i] = <<"subscription_benefit.search", "o1", "r1">>

\* C4: a tiers search by an unauthenticated actor against an existing
\* organization reaches the tier search and succeeds with the tiers that are
\* not archived, the count being their number.
C4_AnonymousTierSearch ==
    \A r \in Reqs :
        LET q == req[r]
        IN ( /\ q.endpoint = "search_subscription_tiers"
             /\ q.actor = Anonymous
             /\ organization_get_by_name(q.platform, q.organization_name) # None
             /\ q.repository_name = None
             /\ q.pc = "done" )
           => /\ q.status = "ok"
              /\ "subscription_tier.search" \in Operations(q)
              /\ \A i \in 1..Len(q.items) : ~q.items[i].is_archived
              /\ q.count = Cardinality(
                    {t \in Tiers : /\ t.id \notin store.archived
                                   /\ InScope(t, q.organization, None, q.direct_organization)
                                   /\ q.type # None => t.type = q.type})

C6_FeatureFlagGate ==
    \A r \in Reqs :
        LET q == req[r]
        IN q.pc = "done"
           => /\ (posthog_client /\ q.actor \in Users \ FlagUsers) =>
                    (q.status = "Forbidden" /\ q.calls = <<>>)
              /\ (posthog_client /\ (q.actor # Anonymous \/ q.endpoint \notin UserRequiredEndpoints))
                    => q.flag_checks = 1
              /\ (~posthog_client /\ q.endpoint \notin UserRequiredEndpoints) =>
                    q.status \notin Refusals

SearchEndpoints ==
    { "search_subscription_tiers", "search_subscription_benefits", "search_subscriptions" }

Everything == Cardinality(Tiers) + Cardinality(Benefits) + Cardinality(Subscriptions)

\* C7: a search that succeeded, the same search for the next page and the
\* same search unpaginated, all three over the same stored data: the two
\* pages share no result, no page holds a result twice, the two pages in
\* order are the unpaginated results from the first page's offset on, and the
\* count of each page is the number of all the matches.
C7_StablePagination ==
    \A r \in Reqs :
        LET q == req[r]
            next == Alone([q EXCEPT !.page = q.page + 1])
            full == Alone([q EXCEPT !.page = 1, !.limit = Everything])
            from == (q.page - 1) * q.limit + 1
        IN (q.endpoint \in SearchEndpoints /\ q.pc = "done" /\ q.status = "ok")
           => /\ next.status = "ok" /\ full.status = "ok"
              /\ Range(q.items) \cap Range(next.items) = {}
              /\ Cardinality(Range(q.items)) = Len(q.items)
              /\ q.items \o next.items
                   = SubSeq(full.items, from, Min(from + 2 * q.limit - 1, Len(full.items)))
              /\ q.count = Len(full.items)
              /\ next.count = q.count

C7_Witness ==
    \E r \in Reqs :
        /\ req[r].endpoint = "search_subscription_tiers"
        /\ req[r].pc = "done"
        /\ req[r].status = "ok"
        /\ req[r].page = 1
        /\ req[r].limit = 2
        /\ req[r].count = 3
        /\ Len(req[r].items) = 2
        /\ Len(Alone([req[r] EXCEPT !.page = 2]).items) = 1

\* C8: with read requests interleaved at their awaits, every finished request
\* holds exactly what it holds when served alone over the same stored data
\* (status, results, count, the calls it made), it has called no writing
\* operation, and the stored data is as it was.
C8_ReadsDoNotInterfere ==
    \A r \in Reqs :
        LET q == req[r]
        IN /\ Operations(q) \cap WritingOperations = {}
           /\ store = InitStore
           /\ q.pc = "done" => q = Alone(q)

C8_Witness ==
    \E r1, r2 \in Reqs :
        /\ r1 # r2
        /\ req[r1].endpoint = "search_subscription_benefits"
        /\ req[r1].pc = "done"
        /\ req[r1].status = "ok"
        /\ req[r1].repository = None
        /\ req[r2].endpoint = "get_subscriptions_summary"
        /\ req[r2].pc = "get_periods_summary"
        /\ req[r2].repository = "r1"

\* C9: a repository is looked up only when repository_name is given, only
\* after the organization is resolved and with that organization's id; when
\* the lookup finds nothing the request ends with NotFound and no search or
\* summary call; without repository_name no repository is looked up and the
\* search or summary is called with no repository.
C9_RepositoryLookup ==
    \A r \in Reqs :
        LET q == req[r]
        IN /\ \A i \in 1..Len(q.calls) :
                 q.calls[i][1] = LookupRepository
                 => /\ q.repository_name # None
                    /\ q.organization # None
                    /\ q.calls[i] = <<LookupRepository, q.organization, q.repository_name>>
                    /\ \E j \in 1..(i - 1) : q.calls[j][1] = LookupOrganization
                    /\ repository_get_by_org_and_name(q.calls[i][2], q.calls[i][3]) = None
                         => /\ q.pc = "done"
                            /\ q.status = "NotFound"
                            /\ Operations(q) \cap SearchOperations = {}
           /\ q.repository_name = None
                 => /\ LookupRepository \notin Operations(q)
                    /\ \A i \in 1..Len(q.calls) :
                          q.calls[i][1] \in SearchOperations => q.calls[i][3] = None
                    /\ (q.endpoint \in ReadEndpoints /\ q.pc = "done" /\ q.status = "ok")
                          => Operations(q) \cap SearchOperations # {}

C9_Witness ==
    \E r \in Reqs :
        /\ req[r].endpoint = "get_subscriptions_summary"
        /\ req[r].organization = "o1"
        /\ req[r].repository_name = "lib"
        /\ req[r].pc = "done"
        /\ req[r].status = "NotFound"
        /\ Len(req[r].calls) = 2

ByIdEndpoints ==
    { "update_subscription_tier", "archive_subscription_tier",
      "update_subscription_tier_benefits", "update_subscription_benefit",
      "delete_subscription_benefit", "create_subscribe_session" }

GetById(q, st) ==
    IF q.endpoint \in TierEndpoints THEN subscription_tier_get_by_id(st, q.actor, q.id)
    ELSE subscription_benefit_get_by_id(st, q.actor, q.id)

\* C10: in the endpoints that act on an entity by id, the step in which
\* get_by_id finds no entity for the actor ends the request with NotFound and
\* no result, with no writing operation called and the stored data unchanged.
C10_NotFoundWritesNothing ==
    [][ \A r \in Reqs :
          ( /\ req[r].endpoint \in ByIdEndpoints
            /\ req[r].pc = "get_by_id"
            /\ req'[r] # req[r]
            /\ GetById(req[r], store) = None )
          => /\ req'[r].pc = "done"
             /\ req'[r].status = "NotFound"
             /\ req'[r].items = <<>>
             /\ Operations(req'[r]) \cap WritingOperations = {}
             /\ store' = store ]_vars

C10_Witness ==
    \E r \in Reqs :
        /\ req[r].endpoint = "delete_subscription_benefit"
        /\ req[r].actor = "alice"
        /\ req[r].id = "b1"
        /\ "b1" \in store.deleted
        /\ req[r].pc = "done"
        /\ req[r].status = "NotFound"

====
